---- MODULE Spec2Model ----
(***************************************************************************)
(* ToolHub: the freemium accounts (register, login), the daily usage limit *)
(* of the AI tools, the Gemini retry loop and the PDF merger, as state     *)
(* machines translated from the Python sources.                            *)
(*                                                                         *)
(* Strings that the code inspects (form fields, e-mail addresses) are      *)
(* sequences of one-character strings, so that strip(), lower(), len() and *)
(* the e-mail pattern are computed, not assumed.                           *)
(***************************************************************************)
EXTENDS Integers, Sequences, FiniteSets, TLC

\* ------------------------------------------------------------------ bounds
MaxDay == 1
MaxRows == 4
MaxUsers == 3
MaxRetries == 4
MaxPaths == 3
MaxNow == 2
MaxScans == 2
MaxHeadings == 2
MaxFiles == 2
MaxRequests == 2

\* -------------------------------------------------------- program constants
DailyLimit == 3
MinUsernameLen == 3
MinPasswordLen == 6
MinTldLen == 2
DefaultMaxRetries == 3
MinMergeInputs == 2
DefaultLimitFree == 3

VARIABLES
    users,      \* the users table, in row-id order: users[i] is the row with id i
    session,    \* per client: the user id held by the login session (0: none)
    reg,        \* per client: the register request being handled
    authResp,   \* the last response of the auth routes
    usage,      \* the usage table: number of rows per <<user id, tool, UTC day>>
    utcDay,     \* calendar day of datetime.utcnow()
    localDay,   \* calendar day of date.today() on the server
    tz,         \* sign of the server's UTC offset: -1 west, 0 none, 1 east
    concurrent, \* whether the server handles requests of one user concurrently
    req,        \* per client: the AI-tool request being handled
    resp,       \* the last response of the AI-tool routes
    lastCheck,  \* per user: local day of the latest check_usage_limit (-1: none)
    rejectedOn, \* per user: local day of the latest limit rejection (-1: none)
    apiKey,     \* whether GEMINI_API_KEY is set in the environment
    client,     \* whether GeminiService.client is set (FALSE: None)
    gen,        \* the invocation of _generate_content
    fs,         \* the paths that exist in the file system
    mrg,        \* the invocation of merge_pdfs
    upl,        \* the POST /tools/pdf/merge request
    qr,         \* the qr_codes table, by qr_id
    scans,      \* per code: the number of its qr_scans rows
    now,        \* datetime.utcnow() of the QR routes
    qrResp,     \* the last answer of update_redirect or of /qr/<qr_id>
    limitFree,  \* the ai_tool_config table: daily_limit_free per tool
    seo         \* the SEO analysis being scored

accVars == <<users, session, reg, authResp>>
useVars == <<usage, utcDay, localDay, tz, concurrent, req, resp, lastCheck, rejectedOn>>
gemVars == <<apiKey, client, gen>>
pdfVars == <<fs, mrg, upl>>
qrVars == <<qr, scans, now, qrResp>>
cfgVars == <<limitFree>>
seoVars == <<seo>>

Clients == {"c1", "c2"}
Days == 0..MaxDay
UserIds == 1..MaxUsers
Tools == {"ai_generate", "blog_generator"}
NoTool == "None"

\* ----------------------------------------------------------------- strings
LowerChar(ch) == IF ch = "A" THEN "a" ELSE IF ch = "B" THEN "b" ELSE ch

\* str.lower()
Lower(s) == [i \in 1..Len(s) |-> LowerChar(s[i])]

RECURSIVE LStrip(_)
LStrip(s) == IF s # <<>> /\ Head(s) = " " THEN LStrip(Tail(s)) ELSE s

RECURSIVE RStrip(_)
RStrip(s) ==
    IF s # <<>> /\ s[Len(s)] = " " THEN RStrip(SubSeq(s, 1, Len(s) - 1)) ELSE s

\* str.strip()
Strip(s) == RStrip(LStrip(s))

\* ---------------------------------------------------------------- accounts
FREE == "free"
PREMIUM == "premium"

BcryptHash(pw) == [fmt |-> "bcrypt", pw |-> pw]

\* User.is_premium
IsPremium(u) == users[u].role = PREMIUM

\* flask_login: current_user.is_authenticated is UserMixin's, which returns
\* self.is_active, here the is_active column of the row the session names.
IsAuthenticated(c) == session[c] # 0 /\ users[session[c]].is_active

\* ------------------------------------------------------------ usage limit
RECURSIVE SumOver(_, _, _, _)
SumOver(tbl, u, ts, d) ==
    IF ts = {} THEN 0
    ELSE LET t == CHOOSE x \in ts : TRUE
         IN tbl[<<u, t, d>>] + SumOver(tbl, u, ts \ {t}, d)

\* All rows of a user on the days ds
RECURSIVE RowsOfUser(_, _)
RowsOfUser(u, ds) ==
    IF ds = {} THEN 0
    ELSE LET d == CHOOSE x \in ds : TRUE
         IN SumOver(usage, u, Tools, d) + RowsOfUser(u, ds \ {d})

\* Mutant: the date filter left out, every row of the user counts.
GetDailyUsageCount_AllDays(u, tool_name, target_date) ==
    RowsOfUser(u, Days)

\* User.get_daily_usage_count: rows of the user whose date(used_at) is
\* target_date, of one tool when tool_name is given.
GetDailyUsageCount(u, tool_name, target_date) ==
    IF target_date \notin Days THEN 0
    ELSE IF tool_name = NoTool THEN SumOver(usage, u, Tools, target_date)
    ELSE usage[<<u, tool_name, target_date>>]

\* date.today()
Today == localDay

\* User.can_use_tool
CanUseTool(u, tool_name) ==
    IF IsPremium(u) THEN TRUE
    ELSE GetDailyUsageCount(u, NoTool, Today) < DailyLimit

\* Mutant: the limit test off by one (> for >=).
CheckUsageLimit_OffByOne(cu, tool_name) ==
    IF ~cu.authenticated THEN [allowed |-> FALSE, redirect |-> "auth.login"]
    ELSE IF cu.premium THEN [allowed |-> TRUE, redirect |-> "none"]
    ELSE IF GetDailyUsageCount(cu.id, NoTool, Today) > DailyLimit
         THEN [allowed |-> FALSE, redirect |-> "auth.upgrade"]
    ELSE [allowed |-> TRUE, redirect |-> "none"]

\* Mutant: the premium bypass left out, premium users are counted too.
CheckUsageLimit_NoBypass(cu, tool_name) ==
    IF ~cu.authenticated THEN [allowed |-> FALSE, redirect |-> "auth.login"]
    ELSE IF GetDailyUsageCount(cu.id, NoTool, Today) >= DailyLimit
         THEN [allowed |-> FALSE, redirect |-> "auth.upgrade"]
    ELSE [allowed |-> TRUE, redirect |-> "none"]

\* check_usage_limit, for the current_user loaded by this request:
\* cu = [id, premium, authenticated].
CheckUsageLimit(cu, tool_name) ==
    IF ~cu.authenticated THEN [allowed |-> FALSE, redirect |-> "auth.login"]
    ELSE IF cu.premium THEN [allowed |-> TRUE, redirect |-> "none"]
    ELSE IF GetDailyUsageCount(cu.id, NoTool, Today) >= DailyLimit
         THEN [allowed |-> FALSE, redirect |-> "auth.upgrade"]
    ELSE [allowed |-> TRUE, redirect |-> "none"]

\* ------------------------------------------------------- AI-tool requests
IdleReq ==
    [pc |-> "idle", route |-> "none", checkDay |-> 0,
     cu |-> [id |-> 0, premium |-> FALSE, authenticated |-> FALSE]]

\* A response: the HTTP status, the JSON success flag, what led to it (cause:
\* "prompt", "limit", "unavailable", "exception", "form" or "output") and
\* whether handling the request added a Usage row.
NoResp ==
    [route |-> "none", status |-> 0, success |-> FALSE, cause |-> "none",
     premium |-> FALSE, recorded |-> FALSE]

\* flask_login's current_user, loaded once per request by load_user
CurrentUser(c) ==
    [id |-> session[c],
     premium |-> session[c] # 0 /\ IsPremium(session[c]),
     authenticated |-> IsAuthenticated(c)]

InFlight == {c \in Clients : req[c].pc # "idle"}

\* Requests are taken one at a time unless the server runs them concurrently.
MayBegin(c) ==
    /\ req[c].pc = "idle"
    /\ concurrent \/ InFlight = {}

\* The model's bound on the rows a user's requests may add.
HasRoom(u) == RowsOfUser(u, Days) + Cardinality(InFlight) < MaxRows

\* What _generate_content can return, as <<head, tail>>; startswith() compares
\* the head.
UnavailableHead == "AI service is currently unavailable"
GeminiReturns ==
    [text |-> <<"Generated", " text">>,
     unavailable |-> <<UnavailableHead, ". Please check configuration.">>,
     failed |-> <<"AI generation failed", ": error">>,
     exhausted |-> <<"Failed to generate content after multiple attempts", ".">>]

StartsWith(s, head) == s # <<>> /\ s[1] = head

Respond(r, status, cause) ==
    resp' = [route |-> r.route, status |-> status, success |-> cause = "output",
             cause |-> cause, premium |-> r.cu.premium, recorded |-> usage' # usage]

\* Bookkeeping of the limit checks: the day of the user's latest check and of
\* the latest refusal.
NoteCheck(u, allowed) ==
    /\ lastCheck' = [lastCheck EXCEPT ![u] = Today]
    /\ rejectedOn' = IF allowed THEN rejectedOn ELSE [rejectedOn EXCEPT ![u] = Today]

\* The request record after the limit check on this day
Checked(c, route) ==
    [pc |-> "generate", route |-> route, checkDay |-> Today, cu |-> CurrentUser(c)]

\* record_usage: a Usage row stamped datetime.utcnow() for a free user; a
\* failed commit is logged and swallowed.
RecordUsage(cu, tool_name, commitOk) ==
    IF cu.authenticated /\ ~cu.premium /\ commitOk
    THEN [usage EXCEPT ![<<cu.id, tool_name, utcDay>>] = @ + 1]
    ELSE usage

\* ai_generate up to the limit check (lines 60-70): request.json or the
\* count query may raise, which the handler's except clause answers.
AiGenerateBegin(c, body, dbOk) ==
    /\ UNCHANGED <<usage, utcDay, localDay, tz, concurrent>>
    /\ MayBegin(c)
    /\ IsAuthenticated(c)
    /\ LET r == Checked(c, "ai_generate")
           chk == CheckUsageLimit(r.cu, "ai_generate")
       IN IF body = "nojson"
          THEN /\ Respond(r, 500, "exception")
               /\ UNCHANGED <<req, lastCheck, rejectedOn>>
          ELSE IF body \in {"noprompt", "empty"}
          THEN /\ Respond(r, 400, "prompt")
               /\ UNCHANGED <<req, lastCheck, rejectedOn>>
          ELSE IF ~dbOk
          THEN /\ Respond(r, 500, "exception")
               /\ UNCHANGED <<req, lastCheck, rejectedOn>>
          ELSE IF ~chk.allowed
          THEN /\ Respond(r, 403, "limit")
               /\ NoteCheck(r.cu.id, FALSE)
               /\ UNCHANGED req
          ELSE /\ HasRoom(r.cu.id)
               /\ req' = [req EXCEPT ![c] = r]
               /\ NoteCheck(r.cu.id, TRUE)
               /\ resp' = NoResp

\* Mutant: record_usage called before the 503 test.
AiGenerateCall_RecordFirst(c, outcome) ==
    /\ UNCHANGED <<utcDay, localDay, tz, concurrent, lastCheck, rejectedOn>>
    /\ req[c].pc = "generate"
    /\ req[c].route = "ai_generate"
    /\ req' = [req EXCEPT ![c] = IdleReq]
    /\ IF outcome = "raise"
       THEN /\ usage' = usage
            /\ Respond(req[c], 500, "exception")
       ELSE /\ usage' = RecordUsage(req[c].cu, "ai_generate", TRUE)
            /\ IF StartsWith(GeminiReturns[outcome], UnavailableHead)
               THEN Respond(req[c], 503, "unavailable")
               ELSE Respond(req[c], 200, "output")

\* ai_generate: gemini_service.generate_content and the 503 test (lines 73-76)
AiGenerateCall(c, outcome) ==
    /\ UNCHANGED <<usage, utcDay, localDay, tz, concurrent, lastCheck, rejectedOn>>
    /\ req[c].pc = "generate"
    /\ req[c].route = "ai_generate"
    /\ IF outcome = "raise"
       THEN /\ Respond(req[c], 500, "exception")
            /\ req' = [req EXCEPT ![c] = IdleReq]
       ELSE IF StartsWith(GeminiReturns[outcome], UnavailableHead)
       THEN /\ Respond(req[c], 503, "unavailable")
            /\ req' = [req EXCEPT ![c] = IdleReq]
       ELSE /\ req' = [req EXCEPT ![c].pc = "record"]
            /\ UNCHANGED resp

\* ai_generate: record_usage and the 200 response (lines 79-81)
AiGenerateRecord(c, commitOk) ==
    /\ req[c].pc = "record"
    /\ req[c].route = "ai_generate"
    /\ usage' = RecordUsage(req[c].cu, "ai_generate", commitOk)
    /\ Respond(req[c], 200, "output")
    /\ req' = [req EXCEPT ![c] = IdleReq]
    /\ UNCHANGED <<utcDay, localDay, tz, concurrent, lastCheck, rejectedOn>>

\* blog_generator up to the form validation (lines 115-132): the limit check
\* comes first, then the form is read; every refusal is a JSON body with
\* success false.
BlogBegin(c, form) ==
    /\ UNCHANGED <<usage, utcDay, localDay, tz, concurrent>>
    /\ MayBegin(c)
    /\ IsAuthenticated(c)
    /\ LET r == Checked(c, "blog_generator")
           chk == CheckUsageLimit(r.cu, "blog_generator")
       IN /\ NoteCheck(r.cu.id, chk.allowed)
          /\ IF ~chk.allowed
             THEN /\ Respond(r, 200, "limit")
                  /\ UNCHANGED req
             ELSE IF form = "badcount"
             THEN /\ Respond(r, 200, "exception")
                  /\ UNCHANGED req
             ELSE IF form = "notopic"
             THEN /\ Respond(r, 200, "form")
                  /\ UNCHANGED req
             ELSE /\ HasRoom(r.cu.id)
                  /\ req' = [req EXCEPT ![c] = r]
                  /\ resp' = NoResp

\* blog_generator: gemini_service.generate_blog_post (line 135); whatever
\* string comes back is the result.
BlogCall(c, outcome) ==
    /\ req[c].pc = "generate"
    /\ req[c].route = "blog_generator"
    /\ outcome \in DOMAIN GeminiReturns
    /\ req' = [req EXCEPT ![c].pc = "record"]
    /\ UNCHANGED <<usage, utcDay, localDay, tz, concurrent, resp, lastCheck, rejectedOn>>

\* blog_generator: record_usage and the success response (lines 138-144)
BlogRecord(c, commitOk) ==
    /\ req[c].pc = "record"
    /\ req[c].route = "blog_generator"
    /\ usage' = RecordUsage(req[c].cu, "blog_generator", commitOk)
    /\ Respond(req[c], 200, "output")
    /\ req' = [req EXCEPT ![c] = IdleReq]
    /\ UNCHANGED <<utcDay, localDay, tz, concurrent, lastCheck, rejectedOn>>

\* Midnight. With no offset both calendars turn together; east of UTC the
\* local date turns first, west of UTC the UTC date turns first.
Tick ==
    LET advLocal == tz = 0 \/ (tz = 1 /\ localDay = utcDay) \/ (tz = -1 /\ utcDay > localDay)
        advUtc == tz = 0 \/ (tz = 1 /\ localDay > utcDay) \/ (tz = -1 /\ localDay = utcDay)
    IN /\ advLocal => localDay < MaxDay
       /\ advUtc => utcDay < MaxDay
       /\ localDay' = IF advLocal THEN localDay + 1 ELSE localDay
       /\ utcDay' = IF advUtc THEN utcDay + 1 ELSE utcDay
       /\ UNCHANGED <<usage, tz, concurrent, req, resp, lastCheck, rejectedOn>>

\* The role column of a logged-in user set to PREMIUM out of band (the
\* payment behind the upgrade page): no route of the sources writes it.
Upgrade(c) ==
    /\ IsAuthenticated(c)
    /\ users[session[c]].role = FREE
    /\ users' = [users EXCEPT ![session[c]].role = PREMIUM]
    /\ UNCHANGED <<session, reg, authResp>>

\* ------------------------------------------------- GeminiService retry loop
\* A return value of _generate_content: a string, or None
Str(s) == [isStr |-> TRUE, val |-> s]
NoneVal == [isStr |-> FALSE, val |-> <<>>]

IdleGen == [pc |-> "idle", max_retries |-> 0, attempt |-> 0, calls |-> 0, ret |-> NoneVal]

\* What one call of client.models.generate_content does: it raises, or it
\* answers with response.text None or a string.
ApiOutcomes ==
    {[kind |-> "raise", text |-> <<>>], [kind |-> "none", text |-> <<>>]} \cup
    {[kind |-> "text", text |-> t] : t \in {<<>>, <<" ">>, <<"o", "k", " ">>}}

\* The truth value of response.text
HasText(o) == o.kind = "text" /\ o.text # <<>>

\* self.client after _initialize_client(): untouched without an API key,
\* set when genai.Client() succeeds, None when it raises.
InitializeClient(cl, ctorOk) == IF ~apiKey THEN cl ELSE ctorOk

\* Mutant: the loop runs one more time.
LoopContinues_OneMore(attempt, max_retries) == attempt <= max_retries

\* for attempt in range(max_retries)
LoopContinues(attempt, max_retries) == attempt < max_retries

GenReturn(calls, val) == gen' = [gen EXCEPT !.pc = "done", !.calls = calls, !.ret = Str(val)]

\* The call and the client check before the loop
GenStart(max_retries, ctorOk) ==
    /\ gen.pc \in {"idle", "done"}
    /\ LET cl == IF ~client THEN InitializeClient(client, ctorOk) ELSE client
       IN /\ client' = cl
          /\ IF ~cl
             THEN gen' = [pc |-> "done", max_retries |-> max_retries, attempt |-> 0,
                          calls |-> 0, ret |-> Str(GeminiReturns.unavailable)]
             ELSE gen' = [pc |-> "loop", max_retries |-> max_retries, attempt |-> 0,
                          calls |-> 0, ret |-> NoneVal]
    /\ UNCHANGED apiKey

\* One iteration of the loop: one API call
GenAttempt(o) ==
    /\ gen.pc = "loop"
    /\ LoopContinues(gen.attempt, gen.max_retries)
    /\ IF o.kind = "raise"
       THEN IF gen.attempt < gen.max_retries - 1
            THEN gen' = [gen EXCEPT !.pc = "sleep", !.calls = @ + 1]
            ELSE GenReturn(gen.calls + 1, GeminiReturns.failed)
       ELSE IF HasText(o)
            THEN GenReturn(gen.calls + 1, Strip(o.text))
            ELSE gen' = [gen EXCEPT !.attempt = @ + 1, !.calls = @ + 1]
    /\ UNCHANGED <<apiKey, client>>

\* time.sleep(1) is over: the next iteration
GenWake ==
    /\ gen.pc = "sleep"
    /\ gen' = [gen EXCEPT !.pc = "loop", !.attempt = @ + 1]
    /\ UNCHANGED <<apiKey, client>>

\* The loop has run out
GenExhausted ==
    /\ gen.pc = "loop"
    /\ ~LoopContinues(gen.attempt, gen.max_retries)
    /\ GenReturn(gen.calls, GeminiReturns.exhausted)
    /\ UNCHANGED <<apiKey, client>>

\* The environment sets or unsets GEMINI_API_KEY
SetApiKey(b) ==
    /\ apiKey # b
    /\ apiKey' = b
    /\ UNCHANGED <<client, gen>>

\* After GeminiService(): the client is set if the key was there and
\* genai.Client() did not raise.
InitGemini ==
    /\ apiKey \in BOOLEAN
    /\ client \in {InitializeClient(FALSE, ctorOk) : ctorOk \in BOOLEAN}
    /\ gen = IdleGen

GenStep == (\E o \in ApiOutcomes : GenAttempt(o)) \/ GenWake \/ GenExhausted

\* ------------------------------------------------------ PDFMerger.merge_pdfs
UploadNames == {"a.pdf", "b.pdf"}
TmpNames == {"merged_1.pdf", "merged_2.pdf"}
OutName == "out.pdf"
NoName == "None"
Paths == UploadNames \cup TmpNames \cup {OutName}

RECURSIVE SeqsUpTo(_, _)
SeqsUpTo(S, n) ==
    IF n = 0 THEN {<<>>}
    ELSE LET shorter == SeqsUpTo(S, n - 1)
         IN shorter \cup {Append(q, x) : q \in {t \in shorter : Len(t) = n - 1}, x \in S}

PathLists == SeqsUpTo(UploadNames, MaxPaths)

IdleMerge == [pc |-> "idle", paths |-> <<>>, out |-> NoName, k |-> 0, exc |-> "None",
              ret |-> NoName]

\* No POST /tools/pdf/merge request yet
IdleUpload == [pc |-> "idle", paths |-> <<>>, status |-> 0, ts |-> 1, n |-> 0]

\* not pdf_paths or len(pdf_paths) < 2
TooFew(pdf_paths) == pdf_paths = <<>> \/ Len(pdf_paths) < MinMergeInputs

Missing(pdf_paths) == {k \in 1..Len(pdf_paths) : pdf_paths[k] \notin fs}

MergeRaise(pdf_paths, out, k, exc) ==
    mrg' = [pc |-> "done", paths |-> pdf_paths, out |-> out, k |-> k, exc |-> exc,
            ret |-> NoName]

\* The call, the validation of the inputs and the choice of the output path;
\* mkstemp creates the file it names.
MergeStart(pdf_paths, output_filename, tmp) ==
    /\ mrg.pc \in {"idle", "done"}
    /\ IF TooFew(pdf_paths)
       THEN MergeRaise(pdf_paths, NoName, 0, "ValueError") /\ UNCHANGED fs
       ELSE IF Missing(pdf_paths) # {}
       THEN MergeRaise(pdf_paths, NoName, 0, "FileNotFoundError") /\ UNCHANGED fs
       ELSE IF output_filename = NoName
       THEN /\ tmp \notin fs
            /\ fs' = fs \cup {tmp}
            /\ mrg' = [pc |-> "append", paths |-> pdf_paths, out |-> tmp, k |-> 1,
                       exc |-> "None", ret |-> NoName]
       ELSE /\ fs' = fs
            /\ mrg' = [pc |-> "append", paths |-> pdf_paths, out |-> output_filename,
                       k |-> 1, exc |-> "None", ret |-> NoName]

\* One iteration of the append loop: open the input, merger.append
MergeAppend(readable) ==
    /\ mrg.pc = "append"
    /\ mrg.k <= Len(mrg.paths)
    /\ IF mrg.paths[mrg.k] \in fs /\ readable
       THEN mrg' = [mrg EXCEPT !.k = @ + 1]
       ELSE mrg' = [mrg EXCEPT !.pc = "except"]
    /\ UNCHANGED fs

\* open(output_path, 'wb') creates the file; merger.write or merger.close
\* may raise after that.
MergeWrite(written) ==
    /\ mrg.pc = "append"
    /\ mrg.k > Len(mrg.paths)
    /\ fs' = fs \cup {mrg.out}
    /\ IF written
       THEN mrg' = [mrg EXCEPT !.pc = "done", !.ret = mrg.out]
       ELSE mrg' = [mrg EXCEPT !.pc = "except"]

\* Mutant: the except clause leaves the output file.
MergeCleanup_Keep ==
    /\ mrg.pc = "except"
    /\ fs' = fs
    /\ MergeRaise(mrg.paths, mrg.out, mrg.k, "Exception")

\* The except clause: remove the output file if it exists, raise Exception
MergeCleanup ==
    /\ mrg.pc = "except"
    /\ fs' = IF mrg.out \in fs THEN fs \ {mrg.out} ELSE fs
    /\ MergeRaise(mrg.paths, mrg.out, mrg.k, "Exception")

\* Other code and other processes save and delete files.
CreateFile(p) ==
    /\ p \notin fs
    /\ fs' = fs \cup {p}
    /\ UNCHANGED mrg

RemoveFile(p) ==
    /\ p \in fs
    /\ fs' = fs \ {p}
    /\ UNCHANGED mrg

InitPdf ==
    /\ fs \in SUBSET UploadNames
    /\ mrg = IdleMerge
    /\ upl = IdleUpload

\* ------------------------------------------------- POST /tools/pdf/merge
\* The uploaded files of a request, each <<stem, extension>> of its filename
UploadFiles == {<<"a", "pdf">>, <<"b", "PDF">>, <<"n", "txt">>}
FileLists == SeqsUpTo(UploadFiles, MaxFiles)
\* datetime.now() to the second: a request is stamped in the second of the
\* request before it or later
Stamps == {1, 2}

LowerExt(ext) == IF ext = "PDF" THEN "pdf" ELSE ext

\* allowed_file(filename, 'merge'): the lower-cased extension is pdf
AllowedFile(f) == LowerExt(f[2]) \in {"pdf"}

\* os.path.join(UPLOAD_FOLDER, f"{timestamp}_{secure_filename(filename)}")
\* secure_filename keeps the letters and the dot the names here are made of.
FilePath(ts, f) == ToString(ts) \o "_" \o f[1] \o "." \o f[2]

PathSet(paths) == {paths[i] : i \in 1..Len(paths)}

\* pdf_merge_process up to the call of merge_pdfs: the count of the files,
\* then the loop that saves every allowed file (timestamp ts; file.save raises
\* at the file number saveFail when that is one of them), then the count of
\* the saved paths.
UploadSave(files, ts, saveFail) ==
    /\ upl.pc \in {"idle", "done"}
    /\ mrg.pc \in {"idle", "done"}
    /\ ts >= upl.ts
    /\ upl.n < MaxRequests
    /\ UNCHANGED mrg
    /\ IF Len(files) < MinMergeInputs
       THEN /\ upl' = [pc |-> "done", paths |-> <<>>, status |-> 400, ts |-> ts,
                         n |-> upl.n + 1]
            /\ UNCHANGED fs
       ELSE LET valid == SelectSeq(files, AllowedFile)
                all == [i \in 1..Len(valid) |-> FilePath(ts, valid[i])]
                raised == saveFail \in 1..Len(all)
                input_paths == IF raised THEN SubSeq(all, 1, saveFail - 1) ELSE all
            IN /\ fs' = fs \cup PathSet(input_paths)
               /\ upl' = [pc |-> IF raised \/ Len(input_paths) < MinMergeInputs
                                 THEN "done" ELSE "saved",
                          paths |-> input_paths,
                          status |-> IF raised THEN 500
                                     ELSE IF Len(input_paths) < MinMergeInputs THEN 400
                                     ELSE 0,
                          ts |-> ts, n |-> upl.n + 1]

\* merger.merge_pdfs(input_paths)
UploadMerge(tmp) ==
    /\ upl.pc = "saved"
    /\ MergeStart(upl.paths, NoName, tmp)
    /\ upl' = [upl EXCEPT !.pc = "merging"]

\* After merge_pdfs: when it returned, the loop that removes the input files
\* and send_file (which may raise); when it raised, the except clause.
UploadFinish(sendOk) ==
    /\ upl.pc = "merging"
    /\ mrg.pc = "done"
    /\ UNCHANGED mrg
    /\ IF mrg.exc # "None"
       THEN /\ fs' = fs
            /\ upl' = [upl EXCEPT !.pc = "done", !.status = 500]
       ELSE /\ fs' = fs \ PathSet(upl.paths)
            /\ upl' = [upl EXCEPT !.pc = "done", !.status = IF sendOk THEN 200 ELSE 500]

\* ------------------------------------------------------------ AIToolConfig
\* create_default_ai_tools: every tool with daily_limit_free=3
InitConfigDefault == limitFree = [t \in Tools |-> DefaultLimitFree]

\* Values of daily_limit_free that setup_ai_tool_configs or an administrator
\* may store for a tool
ConfigLimits == {2, 3, 4}

\* ai_generate has no row of its own: the default applies to it.
InitConfigAny ==
    limitFree \in {[t \in Tools |-> IF t = "blog_generator" THEN n ELSE DefaultLimitFree] :
                      n \in ConfigLimits}

\* --------------------------------------------------------------- SEOAnalyzer
NoSeo == [pc |-> "idle"]

Statuses == {"good", "warning", "critical"}
Levels == 1..6
HeadingCounts == [Levels -> 0..MaxHeadings]

Max0(x) == IF x > 0 THEN x ELSE 0

\* The levels h2..h6 that have headings while the level above has none
RECURSIVE Skipped(_, _)
Skipped(count, i) ==
    IF i > 6 THEN 0
    ELSE (IF count[i] > 0 /\ count[i - 1] = 0 THEN 1 ELSE 0) + Skipped(count, i + 1)

\* Mutant: 30 off for every skipped level and no max(0, ...).
HeadingHierarchyScore_Steep(count) ==
    100 - (IF count[1] = 0 THEN 30 ELSE IF count[1] > 1 THEN 15 ELSE 0)
        - 30 * Skipped(count, 2)

\* SEOAnalyzer._calculate_heading_hierarchy_score
HeadingHierarchyScore(count) ==
    Max0(100 - (IF count[1] = 0 THEN 30 ELSE IF count[1] > 1 THEN 15 ELSE 0)
             - 10 * Skipped(count, 2))

\* What a status takes off a score
Deduct(status, critical, warning) ==
    IF status = "critical" THEN critical ELSE IF status = "warning" THEN warning ELSE 0

\* int(technical * 0.4 + content * 0.3 + performance * 0.3): int() truncates
\* toward zero; on the scores that occur the double sum has the integer part
\* of the exact sum.
WeightedOverall(technical, content, performance) ==
    LET tenfold == 4 * technical + 3 * content + 3 * performance
    IN IF tenfold >= 0 THEN tenfold \div 10 ELSE -((-tenfold) \div 10)

\* SEOAnalyzer._calculate_scores
CalculateScores(title, meta, h1_status, hierarchy_score, content, speed) ==
    LET technical_score == 100 - Deduct(title, 20, 10) - Deduct(meta, 20, 10)
                               - Deduct(h1_status, 15, 8)
        content_score == hierarchy_score - Deduct(content, 30, 15)
        performance_score == 100 - Deduct(speed, 40, 20)
        overall_score == WeightedOverall(technical_score, content_score, performance_score)
    IN [overall |-> Max0(overall_score), technical |-> Max0(technical_score),
        content |-> Max0(content_score), performance |-> Max0(performance_score)]

\* _analyze_headings has counted the headings of a page
InitSeo == seo \in {[pc |-> "counted", count |-> count] : count \in HeadingCounts}

\* _analyze_headings, line 187: the hierarchy score of the counts
SeoHierarchy ==
    /\ seo.pc = "counted"
    /\ seo' = [pc |-> "headings", count |-> seo.count,
               hierarchy_score |-> HeadingHierarchyScore(seo.count)]

\* audit_website, line 72: the scores of the analyses
SeoScores(title, meta, h1_status, content, speed) ==
    /\ seo.pc = "headings"
    /\ seo' = [pc |-> "scored", hierarchy_score |-> seo.hierarchy_score,
               status |-> [title |-> title, meta |-> meta, h1 |-> h1_status,
                           content |-> content, speed |-> speed],
               scores |-> CalculateScores(title, meta, h1_status, seo.hierarchy_score,
                                          content, speed)]

\* ------------------------------------------------------------------ QR codes
QrIds == {"st", "dy"}
UnknownId == "zz"
NoTime == -1
NoUrl == "None"
OriginalUrl == "u0"
NewUrls == {"u1"}

QrRow(dynamic, active, expires) ==
    [is_dynamic |-> dynamic, is_active |-> active, original_data |-> OriginalUrl,
     current_data |-> OriginalUrl, updated_at |-> 0, scan_count |-> 0,
     expires_at |-> expires]

\* An answer: of update_redirect its return value, of /qr/<qr_id> the status,
\* the Location of the redirect, and whether handling the request added a
\* qr_scans row or changed a scan_count.
NoQrResp ==
    [route |-> "none", id |-> UnknownId, at |-> 0, ret |-> FALSE, status |-> 0,
     cause |-> "none", location |-> NoUrl, scanned |-> FALSE, counted |-> FALSE]

\* QRCode.get_redirect_url
GetRedirectUrl(row) == IF row.is_dynamic THEN row.current_data ELSE row.original_data

\* Mutant: the is_dynamic test left out.
UpdateRedirect_Any(k, new_data) ==
    /\ qr' = [qr EXCEPT ![k].current_data = new_data, ![k].updated_at = now]
    /\ qrResp' = [NoQrResp EXCEPT !.route = "update_redirect", !.id = k, !.ret = TRUE]
    /\ UNCHANGED <<scans, now>>

\* QRCode.update_redirect
UpdateRedirect(k, new_data) ==
    /\ IF qr[k].is_dynamic
       THEN /\ qr' = [qr EXCEPT ![k].current_data = new_data, ![k].updated_at = now]
            /\ qrResp' = [NoQrResp EXCEPT !.route = "update_redirect", !.id = k,
                                          !.ret = TRUE]
       ELSE /\ qr' = qr
            /\ qrResp' = [NoQrResp EXCEPT !.route = "update_redirect", !.id = k,
                                          !.ret = FALSE]
    /\ UNCHANGED <<scans, now>>

\* QRCode.query.filter_by(qr_id=qr_id, is_active=True).first()
ActiveCode(qr_id) == {k \in QrIds : k = qr_id /\ qr[k].is_active}

\* qr_record.expires_at and qr_record.expires_at < datetime.utcnow()
IsExpired(row) == row.expires_at # NoTime /\ row.expires_at < now

QrAnswer(qr_id, status, cause, location) ==
    qrResp' = [route |-> "qr_redirect", id |-> qr_id, at |-> now, ret |-> FALSE,
               status |-> status, cause |-> cause, location |-> location,
               scanned |-> scans' # scans, counted |-> qr' # qr]

\* The model's bound on the qr_scans rows
RECURSIVE TotalScans(_)
TotalScans(ks) ==
    IF ks = {} THEN 0
    ELSE LET k == CHOOSE x \in ks : TRUE IN scans[k] + TotalScans(ks \ {k})

\* Mutant: the expiry test left out.
QrRedirect_NoExpiry(qr_id, dbOk, track, after) ==
    /\ UNCHANGED now
    /\ IF ~dbOk
       THEN /\ UNCHANGED <<qr, scans>>
            /\ QrAnswer(qr_id, 500, "lookup", NoUrl)
       ELSE IF ActiveCode(qr_id) = {}
       THEN /\ UNCHANGED <<qr, scans>>
            /\ QrAnswer(qr_id, 404, "notfound", NoUrl)
       ELSE /\ TotalScans(QrIds) < MaxScans
            /\ scans' = IF track \in {"ok", "count_failed"}
                        THEN [scans EXCEPT ![qr_id] = @ + 1] ELSE scans
            /\ qr' = IF track = "ok"
                     THEN [qr EXCEPT ![qr_id].scan_count = @ + 1, ![qr_id].updated_at = now]
                     ELSE qr
            /\ IF track = "ok" \/ after = "redirect"
               THEN QrAnswer(qr_id, 302, "redirect", GetRedirectUrl(qr[qr_id]))
               ELSE QrAnswer(qr_id, 500, "session", NoUrl)

\* qr_redirect. The lookup may raise (dbOk); create_scan or
\* increment_scan_count may raise (track), which is printed and swallowed,
\* after which reading the record either works or raises on the rolled-back
\* session (after).
QrRedirect(qr_id, dbOk, track, after) ==
    /\ UNCHANGED now
    /\ IF ~dbOk
       THEN /\ UNCHANGED <<qr, scans>>
            /\ QrAnswer(qr_id, 500, "lookup", NoUrl)
       ELSE IF ActiveCode(qr_id) = {}
       THEN /\ UNCHANGED <<qr, scans>>
            /\ QrAnswer(qr_id, 404, "notfound", NoUrl)
       ELSE IF IsExpired(qr[qr_id])
       THEN /\ UNCHANGED <<qr, scans>>
            /\ QrAnswer(qr_id, 410, "expired", NoUrl)
       ELSE /\ TotalScans(QrIds) < MaxScans
            /\ scans' = IF track \in {"ok", "count_failed"}
                        THEN [scans EXCEPT ![qr_id] = @ + 1] ELSE scans
            /\ qr' = IF track = "ok"
                     THEN [qr EXCEPT ![qr_id].scan_count = @ + 1, ![qr_id].updated_at = now]
                     ELSE qr
            /\ IF track = "ok" \/ after = "redirect"
               THEN QrAnswer(qr_id, 302, "redirect", GetRedirectUrl(qr[qr_id]))
               ELSE QrAnswer(qr_id, 500, "session", NoUrl)

\* Time passes.
QrTick ==
    /\ now < MaxNow
    /\ now' = now + 1
    /\ UNCHANGED <<qr, scans, qrResp>>

InitQrIdle ==
    /\ qr = [k \in QrIds |-> QrRow(k = "dy", TRUE, NoTime)]
    /\ scans = [k \in QrIds |-> 0]
    /\ now = 0
    /\ qrResp = NoQrResp

\* A static and a dynamic code, each active or not, each with or without an
\* expiry time.
InitQr ==
    /\ qr \in {[k \in QrIds |-> QrRow(k = "dy", act[k], exp[k])] :
                  act \in [QrIds -> BOOLEAN], exp \in [QrIds -> {NoTime, 1}]}
    /\ scans = [k \in QrIds |-> 0]
    /\ now = 0
    /\ qrResp = NoQrResp

InitServicesIdle ==
    /\ apiKey = TRUE
    /\ client = TRUE
    /\ gen = IdleGen
    /\ fs = {}
    /\ mrg = IdleMerge
    /\ upl = IdleUpload
    /\ InitQrIdle
    /\ InitConfigDefault
    /\ seo = NoSeo

\* ---------------------------------------------------------- initial states
Ann == <<"a", "n", "n">>
Bob == <<"b", "o", "b">>
MailA == <<"a", "@", "x", ".", "i", "o">>
MailB == <<"b", "@", "x", ".", "i", "o">>
Secret == <<"s", "e", "c", "r", "e", "t">>
Hunter == <<"h", "u", "n", "t", "e", "r">>

UserRow(username, email, hash, role, active) ==
    [username |-> username, email |-> email, password_hash |-> hash,
     role |-> role, is_active |-> active]

NoForm == [email |-> <<>>, username |-> <<>>, password |-> <<>>, confirm |-> <<>>]
NoReg == [pc |-> "idle", email |-> <<>>, username |-> <<>>, password |-> <<>>, form |-> NoForm]

\* A response of the auth routes: the form it answers, the user row concerned,
\* whether handling it added a user row and whether it left the client
\* logged in.
NoAuthResp ==
    [route |-> "none", result |-> "none", user |-> 0, form |-> NoForm,
     created |-> FALSE, loggedIn |-> FALSE]

InitAccountsIdle ==
    /\ reg = [c \in Clients |-> NoReg]
    /\ authResp = NoAuthResp

\* Two registered free users; Ann is logged in from both clients, and Bob
\* has used his three AI-tool uses of day 0.
InitLoggedIn ==
    /\ users = <<UserRow(Ann, MailA, BcryptHash(Secret), FREE, TRUE),
                 UserRow(Bob, MailB, BcryptHash(Hunter), FREE, TRUE)>>
    /\ session = [c \in Clients |-> 1]
    /\ InitAccountsIdle

InitUsage ==
    /\ usage = [k \in UserIds \X Tools \X Days |->
                   IF k = <<2, "ai_generate", 0>> THEN DailyLimit ELSE 0]
    /\ utcDay = 0
    /\ localDay = 0
    /\ req = [c \in Clients |-> IdleReq]
    /\ resp = NoResp
    /\ lastCheck = [u \in UserIds |-> -1]
    /\ rejectedOn = [u \in UserIds |-> -1]

Init ==
    /\ InitLoggedIn
    /\ InitUsage
    /\ tz = 0
    /\ concurrent = FALSE
    /\ InitServicesIdle

Bodies == {"nojson", "noprompt", "empty", "ok"}
Forms == {"notopic", "badcount", "ok"}
Outcomes == DOMAIN GeminiReturns

UsageNext ==
    \/ \E c \in Clients, body \in Bodies, dbOk \in BOOLEAN :
          AiGenerateBegin(c, body, dbOk) /\ UNCHANGED <<accVars, gemVars, pdfVars, qrVars, cfgVars, seoVars>>
    \/ \E c \in Clients, outcome \in Outcomes \cup {"raise"} :
          AiGenerateCall(c, outcome) /\ UNCHANGED <<accVars, gemVars, pdfVars, qrVars, cfgVars, seoVars>>
    \/ \E c \in Clients, commitOk \in BOOLEAN :
          AiGenerateRecord(c, commitOk) /\ UNCHANGED <<accVars, gemVars, pdfVars, qrVars, cfgVars, seoVars>>
    \/ \E c \in Clients, form \in Forms : BlogBegin(c, form) /\ UNCHANGED <<accVars, gemVars, pdfVars, qrVars, cfgVars, seoVars>>
    \/ \E c \in Clients, outcome \in Outcomes : BlogCall(c, outcome) /\ UNCHANGED <<accVars, gemVars, pdfVars, qrVars, cfgVars, seoVars>>
    \/ \E c \in Clients, commitOk \in BOOLEAN : BlogRecord(c, commitOk) /\ UNCHANGED <<accVars, gemVars, pdfVars, qrVars, cfgVars, seoVars>>
    \/ Tick /\ UNCHANGED <<accVars, gemVars, pdfVars, qrVars, cfgVars, seoVars>>
    \/ \E c \in Clients : Upgrade(c) /\ UNCHANGED <<useVars, gemVars, pdfVars, qrVars, cfgVars, seoVars>>

vars == <<accVars, useVars, gemVars, pdfVars, qrVars, cfgVars, seoVars>>

Spec == Init /\ [][UsageNext]_vars

\* The same server under any sign of its UTC offset
InitTZ ==
    /\ InitLoggedIn
    /\ InitUsage
    /\ tz \in {-1, 0, 1}
    /\ concurrent = FALSE
    /\ InitServicesIdle

SpecTZ == InitTZ /\ [][UsageNext]_vars

\* ------------------------------------------------------ register and login
Letters == {"a", "b", "c", "e", "h", "i", "l", "n", "o", "p", "r", "s", "t", "u", "w", "x",
            "A", "B"}
LocalChars == Letters \cup {".", "_", "%", "+", "-"}
DomainChars == Letters \cup {".", "-"}

AllIn(s, lo, hi, cs) == \A k \in lo..hi : s[k] \in cs

\* is_valid_email: ^[a-zA-Z0-9._%+-]+@[a-zA-Z0-9.-]+\.[a-zA-Z]{2,}$
IsValidEmail(s) ==
    \E i \in 2..Len(s), j \in 4..Len(s) :
        /\ s[i] = "@"
        /\ AllIn(s, 1, i - 1, LocalChars)
        /\ j >= i + 2
        /\ AllIn(s, i + 1, j - 1, DomainChars)
        /\ s[j] = "."
        /\ Len(s) - j >= MinTldLen
        /\ AllIn(s, j + 1, Len(s), Letters)

\* User.query.filter_by(email=...) / filter_by(username=...)
ByEmail(email) == {u \in 1..Len(users) : users[u].email = email}
ByUsername(username) == {u \in 1..Len(users) : users[u].username = username}

\* Mutant: the password length test left out.
RegisterErrors_NoPasswordLen(form) ==
    LET email == Lower(Strip(form.email))
        username == Strip(form.username)
    IN  (IF email = <<>> \/ ~IsValidEmail(email) THEN {"email"} ELSE {})
        \cup (IF username = <<>> \/ Len(username) < MinUsernameLen THEN {"username"} ELSE {})
        \cup (IF form.password # form.confirm THEN {"confirm"} ELSE {})
        \cup (IF ByEmail(email) # {} THEN {"email_taken"} ELSE {})
        \cup (IF ByUsername(username) # {} THEN {"username_taken"} ELSE {})

\* register, lines 29-54: the errors list of a POSTed form
RegisterErrors(form) ==
    LET email == Lower(Strip(form.email))
        username == Strip(form.username)
    IN  (IF email = <<>> \/ ~IsValidEmail(email) THEN {"email"} ELSE {})
        \cup (IF username = <<>> \/ Len(username) < MinUsernameLen THEN {"username"} ELSE {})
        \cup (IF form.password = <<>> \/ Len(form.password) < MinPasswordLen
              THEN {"password"} ELSE {})
        \cup (IF form.password # form.confirm THEN {"confirm"} ELSE {})
        \cup (IF ByEmail(email) # {} THEN {"email_taken"} ELSE {})
        \cup (IF ByUsername(username) # {} THEN {"username_taken"} ELSE {})

AuthRespond(c, route, result, user, form) ==
    authResp' = [route |-> route, result |-> result, user |-> user, form |-> form,
                 created |-> users' # users,
                 loggedIn |-> session'[c] # 0 /\ users'[session'[c]].is_active]

\* register, lines 25-59: validation and the pre-checks of a POST
RegisterSubmit(c, form) ==
    /\ ~IsAuthenticated(c)
    /\ reg[c].pc = "idle"
    /\ UNCHANGED <<users, session>>
    /\ IF RegisterErrors(form) # {}
       THEN /\ AuthRespond(c, "register", "rejected", 0, form)
            /\ UNCHANGED reg
       ELSE /\ reg' = [reg EXCEPT ![c] = [pc |-> "commit",
                                         email |-> Lower(Strip(form.email)),
                                         username |-> Strip(form.username),
                                         password |-> form.password,
                                         form |-> form]]
            /\ authResp' = NoAuthResp

\* Mutant: the columns declared without unique=True.
UniqueOk_NotEnforced(email, username) == TRUE

\* The UNIQUE constraints of users.email and users.username, which the
\* database applies at commit
UniqueOk(email, username) == ByEmail(email) = {} /\ ByUsername(username) = {}

\* Mutant: the new row is given the PREMIUM role.
NewUser_Premium(r) == UserRow(r.username, r.email, BcryptHash(r.password), PREMIUM, TRUE)

\* register, lines 62-67: User(username, email, role=FREE), set_password
NewUser(r) == UserRow(r.username, r.email, BcryptHash(r.password), FREE, TRUE)

\* register, lines 69-82: commit, then login_user; a failed commit is rolled
\* back.
RegisterCommit(c, dbOk) ==
    /\ reg[c].pc = "commit"
    /\ Len(users) < MaxUsers
    /\ reg' = [reg EXCEPT ![c] = NoReg]
    /\ IF dbOk /\ UniqueOk(reg[c].email, reg[c].username)
       THEN /\ users' = Append(users, NewUser(reg[c]))
            /\ session' = [session EXCEPT ![c] = Len(users) + 1]
            /\ AuthRespond(c, "register", "ok", Len(users) + 1, NoForm)
       ELSE /\ UNCHANGED <<users, session>>
            /\ AuthRespond(c, "register", "failed", 0, NoForm)

\* bcrypt.check_password_hash and werkzeug's check_password_hash: a hash
\* verifies the password it was made from; bcrypt raises ValueError on a hash
\* of another format, werkzeug raises on one it cannot parse.
Verifies(hash, pw) == hash.pw = pw

\* User.check_password: [valid, hash], the hash being rewritten to bcrypt when
\* a legacy hash verified
CheckPassword(u, pw) ==
    LET hash == users[u].password_hash
    IN IF hash.fmt = "bcrypt" THEN [valid |-> Verifies(hash, pw), hash |-> hash]
       ELSE IF hash.fmt = "scrypt"
       THEN IF Verifies(hash, pw) THEN [valid |-> TRUE, hash |-> BcryptHash(pw)]
            ELSE [valid |-> FALSE, hash |-> hash]
       ELSE [valid |-> FALSE, hash |-> hash]

\* The rows the login query matches: email == identifier.lower() or
\* username == identifier
LoginMatches(ident) ==
    {u \in 1..Len(users) : users[u].email = Lower(ident) \/ users[u].username = ident}

\* Mutant: the is_active test left out, login_user forced.
MayLogin_Forced(u) == TRUE

\* login, line 109, and login_user's own test
MayLogin(u) == users[u].is_active

\* login, lines 93-128. first() has no ORDER BY: any matching row.
Login(c, identifier, pw) ==
    LET ident == Strip(identifier)
        form == [NoForm EXCEPT !.email = ident, !.password = pw]
    IN /\ ~IsAuthenticated(c)
       /\ reg[c].pc = "idle"
       /\ UNCHANGED reg
       /\ IF ident = <<>> \/ pw = <<>> \/ LoginMatches(ident) = {}
          THEN /\ UNCHANGED <<users, session>>
               /\ AuthRespond(c, "login", "invalid", 0, form)
          ELSE \E u \in LoginMatches(ident) :
                  LET chk == CheckPassword(u, pw)
                  IN /\ users' = [users EXCEPT ![u].password_hash = chk.hash]
                     /\ IF ~chk.valid
                        THEN /\ UNCHANGED session
                             /\ AuthRespond(c, "login", "invalid", 0, form)
                        ELSE IF ~MayLogin(u)
                        THEN /\ UNCHANGED session
                             /\ AuthRespond(c, "login", "deactivated", u, form)
                        ELSE /\ session' = [session EXCEPT ![c] = u]
                             /\ AuthRespond(c, "login", "ok", u, form)

\* logout
Logout(c) ==
    /\ IsAuthenticated(c)
    /\ session' = [session EXCEPT ![c] = 0]
    /\ UNCHANGED <<users, reg>>
    /\ AuthRespond(c, "logout", "ok", 0, NoForm)

MailAUpper == <<"A", "@", "x", ".", "i", "o">>
MailC == <<"c", "@", "x", ".", "i", "o">>
MailBPadded == <<" ", "b", "@", "x", ".", "i", "o">>
BadMail == <<"a", "@", "x">>
Al == <<"a", "l">>
Short == <<"p", "w">>

Form(email, username, password, confirm) ==
    [email |-> email, username |-> username, password |-> password, confirm |-> confirm]

\* The forms POSTed to /register: four that can pass, and one for each way of
\* failing the validation
RegForms ==
    {Form(MailAUpper, Ann, Secret, Secret), Form(MailAUpper, MailB, Secret, Secret),
     Form(MailC, Ann, Secret, Secret), Form(MailC, MailB, Secret, Secret),
     Form(BadMail, Ann, Secret, Secret), Form(MailBPadded, Ann, Secret, Secret),
     Form(MailC, Al, Secret, Secret), Form(MailC, Bob, Secret, Secret),
     Form(MailC, Ann, Short, Short), Form(MailC, Ann, Secret, Short),
     Form(<<>>, <<>>, <<>>, <<>>)}

Identifiers == {MailAUpper, MailB, Bob, <<"b", "o", "b", " ">>, <<>>}
Passwords == {Secret, Hunter, <<>>}

\* The users table holds Bob, created earlier: active or deactivated, with a
\* bcrypt hash or a legacy one.
SeedUsers ==
    {<<UserRow(Bob, MailB, [fmt |-> f, pw |-> Hunter], FREE, a)>> :
        f \in {"bcrypt", "scrypt"}, a \in BOOLEAN}

InitAuth ==
    /\ users \in SeedUsers
    /\ session = [c \in Clients |-> 0]
    /\ InitAccountsIdle
    /\ InitUsage
    /\ tz = 0
    /\ concurrent = FALSE
    /\ InitServicesIdle

AuthNext ==
    \/ \E c \in Clients, form \in RegForms : RegisterSubmit(c, form) /\ UNCHANGED <<useVars, gemVars, pdfVars, qrVars, cfgVars, seoVars>>
    \/ \E c \in Clients, dbOk \in BOOLEAN : RegisterCommit(c, dbOk) /\ UNCHANGED <<useVars, gemVars, pdfVars, qrVars, cfgVars, seoVars>>
    \/ \E c \in Clients, ident \in Identifiers, pw \in Passwords :
          Login(c, ident, pw) /\ UNCHANGED <<useVars, gemVars, pdfVars, qrVars, cfgVars, seoVars>>
    \/ \E c \in Clients : Logout(c) /\ UNCHANGED <<useVars, gemVars, pdfVars, qrVars, cfgVars, seoVars>>

SpecAuth == InitAuth /\ [][AuthNext]_vars

\* ------------------------------------------------- specifications, services
InitAccountsUsage ==
    /\ InitLoggedIn
    /\ InitUsage
    /\ tz = 0
    /\ concurrent = FALSE

GeminiNext ==
    \/ \E max_retries \in 0..MaxRetries, ctorOk \in BOOLEAN :
          GenStart(max_retries, ctorOk) /\ UNCHANGED <<accVars, useVars, pdfVars, qrVars, cfgVars, seoVars>>
    \/ \E o \in ApiOutcomes : GenAttempt(o) /\ UNCHANGED <<accVars, useVars, pdfVars, qrVars, cfgVars, seoVars>>
    \/ GenWake /\ UNCHANGED <<accVars, useVars, pdfVars, qrVars, cfgVars, seoVars>>
    \/ GenExhausted /\ UNCHANGED <<accVars, useVars, pdfVars, qrVars, cfgVars, seoVars>>
    \/ \E b \in BOOLEAN : SetApiKey(b) /\ UNCHANGED <<accVars, useVars, pdfVars, qrVars, cfgVars, seoVars>>

InitGeminiService ==
    /\ InitAccountsUsage
    /\ InitGemini
    /\ fs = {}
    /\ mrg = IdleMerge
    /\ upl = IdleUpload
    /\ InitQrIdle
    /\ InitConfigDefault
    /\ seo = NoSeo

\* The thread that runs _generate_content keeps running.
SpecGemini == InitGeminiService /\ [][GeminiNext]_vars /\ WF_gemVars(GenStep)

PdfNext ==
    \/ \E pdf_paths \in PathLists, output_filename \in {NoName, OutName, "a.pdf"},
          tmp \in TmpNames :
          MergeStart(pdf_paths, output_filename, tmp) /\ UNCHANGED <<upl, accVars, useVars, gemVars, qrVars, cfgVars, seoVars>>
    \/ \E readable \in BOOLEAN : MergeAppend(readable) /\ UNCHANGED <<upl, accVars, useVars, gemVars, qrVars, cfgVars, seoVars>>
    \/ \E written \in BOOLEAN : MergeWrite(written) /\ UNCHANGED <<upl, accVars, useVars, gemVars, qrVars, cfgVars, seoVars>>
    \/ MergeCleanup /\ UNCHANGED <<upl, accVars, useVars, gemVars, qrVars, cfgVars, seoVars>>
    \/ \E p \in UploadNames \cup {OutName} :
          CreateFile(p) /\ UNCHANGED <<upl, accVars, useVars, gemVars, qrVars, cfgVars, seoVars>>
    \/ \E p \in Paths : RemoveFile(p) /\ UNCHANGED <<upl, accVars, useVars, gemVars, qrVars, cfgVars, seoVars>>

InitPdfMerger ==
    /\ InitAccountsUsage
    /\ apiKey = TRUE
    /\ client = TRUE
    /\ gen = IdleGen
    /\ InitPdf
    /\ InitQrIdle
    /\ InitConfigDefault
    /\ seo = NoSeo

SpecPdf == InitPdfMerger /\ [][PdfNext]_vars

UploadNext ==
    \/ \E files \in FileLists, ts \in Stamps, saveFail \in 0..MaxFiles :
          UploadSave(files, ts, saveFail) /\ UNCHANGED <<accVars, useVars, gemVars, qrVars, cfgVars, seoVars>>
    \/ \E tmp \in TmpNames : UploadMerge(tmp) /\ UNCHANGED <<accVars, useVars, gemVars, qrVars, cfgVars, seoVars>>
    \/ \E readable \in BOOLEAN : MergeAppend(readable) /\ UNCHANGED <<upl, accVars, useVars, gemVars, qrVars, cfgVars, seoVars>>
    \/ \E written \in BOOLEAN : MergeWrite(written) /\ UNCHANGED <<upl, accVars, useVars, gemVars, qrVars, cfgVars, seoVars>>
    \/ MergeCleanup /\ UNCHANGED <<upl, accVars, useVars, gemVars, qrVars, cfgVars, seoVars>>
    \/ \E sendOk \in BOOLEAN : UploadFinish(sendOk) /\ UNCHANGED <<accVars, useVars, gemVars, qrVars, cfgVars, seoVars>>

InitUpload ==
    /\ InitAccountsUsage
    /\ apiKey = TRUE
    /\ client = TRUE
    /\ gen = IdleGen
    /\ fs = {}
    /\ mrg = IdleMerge
    /\ upl = IdleUpload
    /\ InitQrIdle
    /\ InitConfigDefault
    /\ seo = NoSeo

SpecUpload == InitUpload /\ [][UploadNext]_vars

QrNext ==
    \/ \E k \in QrIds, new_data \in NewUrls :
          UpdateRedirect(k, new_data) /\ UNCHANGED <<accVars, useVars, gemVars, pdfVars, cfgVars, seoVars>>
    \/ \E qr_id \in QrIds \cup {UnknownId}, dbOk \in BOOLEAN,
          track \in {"ok", "scan_failed", "count_failed"}, after \in {"redirect", "raise"} :
          QrRedirect(qr_id, dbOk, track, after) /\ UNCHANGED <<accVars, useVars, gemVars, pdfVars, cfgVars, seoVars>>
    \/ QrTick /\ UNCHANGED <<accVars, useVars, gemVars, pdfVars, cfgVars, seoVars>>

InitQrCodes ==
    /\ InitAccountsUsage
    /\ apiKey = TRUE
    /\ client = TRUE
    /\ gen = IdleGen
    /\ fs = {}
    /\ mrg = IdleMerge
    /\ upl = IdleUpload
    /\ InitQr
    /\ InitConfigDefault
    /\ seo = NoSeo

SpecQr == InitQrCodes /\ [][QrNext]_vars

\* The usage limit under any stored daily_limit_free
InitConfigured ==
    /\ InitLoggedIn
    /\ InitUsage
    /\ tz = 0
    /\ concurrent = FALSE
    /\ apiKey = TRUE
    /\ client = TRUE
    /\ gen = IdleGen
    /\ fs = {}
    /\ mrg = IdleMerge
    /\ upl = IdleUpload
    /\ InitQrIdle
    /\ InitConfigAny
    /\ seo = NoSeo

SpecConfig == InitConfigured /\ [][UsageNext]_vars

SeoNext ==
    \/ SeoHierarchy /\ UNCHANGED <<accVars, useVars, gemVars, pdfVars, qrVars, cfgVars>>
    \/ \E title \in Statuses, meta \in Statuses, h1_status \in Statuses,
          content \in Statuses, speed \in Statuses :
          SeoScores(title, meta, h1_status, content, speed)
          /\ UNCHANGED <<accVars, useVars, gemVars, pdfVars, qrVars, cfgVars>>

InitSeoAnalyzer ==
    /\ InitAccountsUsage
    /\ apiKey = TRUE
    /\ client = TRUE
    /\ gen = IdleGen
    /\ fs = {}
    /\ mrg = IdleMerge
    /\ upl = IdleUpload
    /\ InitQrIdle
    /\ InitConfigDefault
    /\ InitSeo

SpecSeo == InitSeoAnalyzer /\ [][SeoNext]_vars

\* The server handles the requests of one user concurrently (threads or
\* several workers).
InitConcurrent ==
    /\ InitLoggedIn
    /\ InitUsage
    /\ tz = 0
    /\ concurrent = TRUE
    /\ InitServicesIdle

SpecConcurrent == InitConcurrent /\ [][UsageNext]_vars

\* ------------------------------------------------------------------ claims
\* Rows of user u stamped with day d, over all AI tools
RowsOn(u, d) == usage[<<u, "ai_generate", d>>] + usage[<<u, "blog_generator", d>>]

\* C1: with requests handled one at a time and the local date equal to the
\* UTC date, a free user's request passes the limit check only while the user
\* has fewer than 3 rows dated today, and no user ever has more than 3 rows
\* on one day, counted over all AI tools together.
C1_DailyLimit ==
    /\ \A u \in 1..Len(users), d \in Days : RowsOn(u, d) <= 3
    /\ \A c \in Clients :
          req[c].pc # "idle" /\ ~req[c].cu.premium
             => RowsOn(req[c].cu.id, req[c].checkDay) < 3

\* C1 witness: Ann is refused with exactly 3 rows today, made with both tools.
C1_Witness ==
    /\ resp.cause = "limit"
    /\ RowsOn(1, localDay) = 3
    /\ usage[<<1, "ai_generate", localDay>>] > 0
    /\ usage[<<1, "blog_generator", localDay>>] > 0

\* C2: a PREMIUM user is allowed by User.can_use_tool in every state, and no
\* request of a premium user is refused by check_usage_limit, whatever number
\* of rows the user has today.
C2_PremiumBypass ==
    /\ \A u \in 1..Len(users), t \in Tools : users[u].role = PREMIUM => CanUseTool(u, t)
    /\ resp.cause = "limit" => ~resp.premium

\* C2 witness: a premium user with 3 rows today has passed the limit check.
C2_Witness ==
    \E c \in Clients :
        /\ req[c].pc = "generate"
        /\ req[c].cu.premium
        /\ req[c].checkDay = localDay
        /\ RowsOn(req[c].cu.id, localDay) >= 3

\* C3: the limit is per day: the first limit check of a free user on the day
\* after a day on which the user was refused is passed.
C3_NewDayAllowed ==
    [][\A u \in 1..Len(users) :
          (/\ users[u].role = FREE
           /\ rejectedOn[u] >= 0
           /\ rejectedOn[u] = localDay - 1
           /\ lastCheck[u] < localDay
           /\ lastCheck'[u] = localDay)
             => /\ rejectedOn'[u] = rejectedOn[u]
                /\ resp'.cause # "limit"]_vars

\* C3 witness: Ann, refused yesterday with 3 rows of that day, has a request
\* past the limit check today, her first check of the day.
C3_Witness ==
    \E c \in Clients :
        /\ localDay > 0
        /\ req[c].pc = "generate"
        /\ ~req[c].cu.premium
        /\ req[c].checkDay = localDay
        /\ rejectedOn[req[c].cu.id] = localDay - 1
        /\ RowsOn(req[c].cu.id, localDay - 1) = 3
        /\ RowsOn(req[c].cu.id, localDay) = 0

C4_UniqueUsers ==
    \A i, j \in 1..Len(users) :
        i # j => users[i].email # users[j].email /\ users[i].username # users[j].username

\* C4 witness: a registration past the pre-checks whose email or username has
\* been taken since by another registration.
C4_Witness ==
    \E c \in Clients :
        /\ reg[c].pc = "commit"
        /\ Len(users) > 1
        /\ ByEmail(reg[c].email) # {} \/ ByUsername(reg[c].username) # {}

\* C5: every step that adds a user row adds one row, with role FREE, and
\* leaves it the logged-in user of the registering client's session.
C5_RegisteredFree ==
    [][Len(users') > Len(users) =>
          /\ Len(users') = Len(users) + 1
          /\ users'[Len(users')].role = "free"
          /\ users'[Len(users')].is_active
          /\ \E c \in Clients :
                /\ reg[c].pc = "commit"
                /\ session'[c] = Len(users')
                /\ authResp'.result = "ok"]_vars

\* C5 witness: a registration answered ok, its new FREE row logged in.
C5_Witness ==
    /\ authResp.route = "register"
    /\ authResp.result = "ok"
    /\ authResp.created
    /\ authResp.loggedIn
    /\ users[authResp.user].role = "free"
    /\ \E c \in Clients : session[c] = authResp.user

\* The validations of a registration form that do not depend on the table
FormFails(form) ==
    \/ Lower(Strip(form.email)) \notin {MailA, MailB, MailC}
    \/ Len(Strip(form.username)) < 3
    \/ Len(form.password) < 6
    \/ form.password # form.confirm

\* C6: a registration that is rejected by the validation or whose commit
\* fails adds no user row, changes none and leaves the client not logged in;
\* no form that fails a validation gets past the validation, and a form whose
\* email or username is taken is rejected there.
C6_FailedRegistration ==
    /\ authResp.route = "register" /\ authResp.result \in {"rejected", "failed"}
          => ~authResp.created /\ ~authResp.loggedIn
    /\ \A c \in Clients : reg[c].pc = "commit" => ~FormFails(reg[c].form)
    /\ authResp.route = "register" /\ authResp.result = "rejected"
          => \/ FormFails(authResp.form)
             \/ \E u \in 1..Len(users) :
                   \/ users[u].email = Lower(Strip(authResp.form.email))
                   \/ users[u].username = Strip(authResp.form.username)

\* C6 witness: a form whose password and confirmation differ was rejected
\* while another user row already existed.
C6_Witness ==
    /\ authResp.route = "register"
    /\ authResp.result = "rejected"
    /\ authResp.form.password # authResp.form.confirm
    /\ Len(users) > 1

C8_RetryBound ==
    /\ [](/\ gen.calls <= gen.max_retries
          /\ gen.pc = "done" => gen.ret.isStr
          /\ (gen.pc # "idle" /\ ~client)
                => /\ gen.pc = "done"
                   /\ gen.calls = 0
                   /\ gen.ret.val[1] = "AI service is currently unavailable")
    /\ (gen.pc \in {"loop", "sleep"} ~> gen.pc = "done")

\* C8 witness: an invocation with the default max_retries that used every
\* attempt and returned.
C8_Witness ==
    /\ gen.pc = "done"
    /\ gen.max_retries = DefaultMaxRetries
    /\ gen.calls = DefaultMaxRetries
    /\ gen.ret.isStr
    /\ gen.ret = Str(GeminiReturns.exhausted)

\* C10: merge_pdfs raises ValueError for fewer than 2 paths and
\* FileNotFoundError for 2 or more paths one of which does not exist, in both
\* cases creating no file; when it raises after the output path was chosen,
\* the output file does not exist.
C10_MergeErrors ==
    [][/\ (mrg.pc \in {"idle", "done"} /\ mrg' # mrg /\ Len(mrg'.paths) < 2)
          => mrg'.pc = "done" /\ mrg'.exc = "ValueError" /\ fs' = fs
       /\ (/\ mrg.pc \in {"idle", "done"} /\ mrg' # mrg /\ Len(mrg'.paths) >= 2
           /\ \E k \in 1..Len(mrg'.paths) : mrg'.paths[k] \notin fs)
          => mrg'.pc = "done" /\ mrg'.exc = "FileNotFoundError" /\ fs' = fs
       /\ (mrg.pc \notin {"idle", "done"} /\ mrg'.pc = "done" /\ mrg'.exc # "None")
          => mrg'.out \notin fs']_vars

\* C10 witness: the merge failed after open() had created the output file
\* that mkstemp named, and the file is gone.
C10_Witness ==
    /\ mrg.pc = "done"
    /\ mrg.exc = "Exception"
    /\ mrg.out \in TmpNames
    /\ mrg.k > Len(mrg.paths)
    /\ mrg.out \notin fs

\* C11: on a code that is not dynamic update_redirect returns False and
\* leaves current_data, original_data and updated_at as they were, no
\* operation changes its current_data, original_data or is_dynamic, and
\* get_redirect_url of it is the original_data it was created with.
C11_StaticRedirect ==
    /\ [](\A k \in QrIds : ~qr[k].is_dynamic => GetRedirectUrl(qr[k]) = OriginalUrl)
    /\ [][\A k \in QrIds : ~qr[k].is_dynamic =>
             /\ ~qr'[k].is_dynamic
             /\ qr'[k].current_data = qr[k].current_data
             /\ qr'[k].original_data = qr[k].original_data
             /\ (qrResp'.route = "update_redirect" /\ qrResp'.id = k)
                   => ~qrResp'.ret /\ qr'[k].updated_at = qr[k].updated_at]_vars

\* C11 witness: update_redirect refused on the static code, which has been
\* scanned, while the dynamic code has been given a new target.
C11_Witness ==
    /\ qrResp.route = "update_redirect"
    /\ qrResp.id = "st"
    /\ ~qrResp.ret
    /\ qr["st"].scan_count > 0
    /\ qr["dy"].current_data # OriginalUrl

C13_ConfiguredLimit ==
    \A u \in 1..Len(users) : users[u].role = "free" =>
        /\ \A t \in Tools, d \in Days : usage[<<u, t, d>>] <= limitFree[t]
        /\ rejectedOn[u] = localDay =>
              \E t \in Tools : usage[<<u, t, localDay>>] >= limitFree[t]

\* C14: for all heading counts and all statuses the hierarchy score and the
\* overall, technical, content and performance scores are in 0..100.
C14_ScoresInRange ==
    /\ seo.pc \in {"headings", "scored"} => seo.hierarchy_score \in 0..100
    /\ seo.pc = "scored" =>
          /\ seo.scores.overall \in 0..100
          /\ seo.scores.technical \in 0..100
          /\ seo.scores.content \in 0..100
          /\ seo.scores.performance \in 0..100

\* C14 witness: the lowest scores, every status critical on the worst
\* hierarchy.
C14_Witness ==
    /\ seo.pc = "scored"
    /\ seo.hierarchy_score = 40
    /\ seo.scores = [overall |-> 39, technical |-> 45, content |-> 10, performance |-> 60]

\* C15: also when the requests of one user are handled concurrently, no free
\* user has more than 3 Usage rows on one day.
C15_ConcurrentLimit ==
    \A u \in 1..Len(users), d \in Days :
        ~IsPremium(u) => RowsOn(u, d) <= 3

\* Usage rows the user has gained since the initial state.
RowsGained(u) == RowsOfUser(u, Days) - (IF u = 2 THEN DailyLimit ELSE 0)

\* C16: whatever the relation of the local date to the UTC date, a step that
\* records a Usage row for a free user raises get_daily_usage_count() (no
\* date argument) of that user by one; and a free user has no more than 3
\* uses within one local day: while the local date is still that of the
\* initial state, every row gained since then is a use of this local day.
C16_CountsAtOnce ==
    [][\A u \in 1..Len(users) :
          /\ (~IsPremium(u) /\ RowsOfUser(u, Days)' = RowsOfUser(u, Days) + 1)
                => GetDailyUsageCount(u, NoTool, Today)'
                      = GetDailyUsageCount(u, NoTool, Today) + 1
          /\ (~IsPremium(u) /\ localDay' = 0) => RowsGained(u)' <= 3]_vars

\* C17: when a POST /tools/pdf/merge request has finished, with whatever
\* response, none of the upload files it saved exists.
C17_UploadsRemoved ==
    upl.pc = "done" => \A i \in 1..Len(upl.paths) : upl.paths[i] \notin fs

====
